---- MODULE Spec2Model ----
(***************************************************************************)
(* A model of the USB transport of lua-tessel                              *)
(* (src/src/comms/transport/USBTransport.js).                              *)
(*                                                                         *)
(* Data representation.  A node Buffer on the message endpoints is a byte  *)
(* string; it is held here run-length encoded, as a sequence of runs       *)
(* [b |-> byte, n |-> count] in canonical form (n >= 1, neighbouring runs  *)
(* differ in b), so that two Buffers are equal exactly when their byte     *)
(* strings are.  The array `buffers` of the MessagesIn handler is held     *)
(* run-length encoded in the same way, as runs [c |-> chunk, k |-> count]. *)
(* Both encodings are lossless; they only make the 4096-byte chunks and    *)
(* the 32 MiB threshold of the source affordable with their real values.   *)
(* Log chunks are short and are held as plain sequences of bytes.          *)
(*                                                                         *)
(* An exception that leaves a stream handler is uncaught: node ends the    *)
(* process, so no handler runs after it (variable `thrown`).               *)
(***************************************************************************)
EXTENDS Integers, Sequences, FiniteSets, TLC

VARIABLES
    buffers,      \* _initMessageInEndpoint: the accumulation array `buffers`
    emitted,      \* the `message` events emitted by the latest data-handler call
    thrown,       \* the exception that left the data handler, or NoError
    frame,        \* history: the chunks delivered since the last short chunk
    lastShort,    \* history: the latest chunk was shorter than TRANSFER_SIZE
    frameEmits    \* history: `message` events emitted for the chunks of `frame`

msgVars == <<buffers, emitted, thrown, frame, lastShort, frameEmits>>

VARIABLES
    posted,       \* history: the arguments of the _postMessage call looped back
    wire          \* the bytes written on MessagesOut that the device has yet to return

loopVars == <<posted, wire>>

VARIABLES
    logData,      \* _initLogEndpoint: `data`, the chunk the handler is parsing
    logPos,       \* `pos`, the scan offset
    logBusy,      \* the handler is inside its while loop
    debugOut,     \* the `debug` events emitted by the latest Log handler call
    logThrown,    \* the exception that left the Log handler, or NoError
    logSent,      \* history: the records the latest chunk was built from, if any
    logBefore     \* history: what came before the latest chunk: "idle" (no chunk
                  \* yet), "first" (nothing), "afterText" (a chunk that ended
                  \* inside the text of a record) or "afterOther"

logVars == <<logData, logPos, logBusy, debugOut, logThrown, logSent, logBefore>>

VARIABLES
    sendArgs,     \* history: the arguments of the latest send call
    usbCalls,     \* the transfers the latest send call has issued
    sendPromise   \* the promise the latest send call returned

sendVars == <<sendArgs, usbCalls, sendPromise>>

VARIABLES
    usbList,      \* usb.getDeviceList(): the devices attached, in enumeration order
    devicesOut,   \* the outcome of the latest getDevices call
    firstOut      \* the outcome of the latest getFirstDevice call

locVars == <<usbList, devicesOut, firstOut>>

VARIABLES
    _device,        \* this._device: the device object, or null
    handle,         \* the USB handle of the device: "closed" or "open"
    deviceSerial,   \* this.deviceSerial
    _interface,     \* this._interface: "undefined", "object" or "null"
    claimed,        \* interface 0 is claimed by this process
    endpoints,      \* this._endpoints has its three roles bound
    streams,        \* the endpoints on which startStream has been called
    serialCb,       \* the callback of getStringDescriptor: "none", "pending", "done"
    altCb,          \* the callback of setAltSetting: "none", "pending", "done"
    serialPromise,  \* the promise of _getDeviceSerial
    ifacePromise,   \* the promise of _getDeviceInterface
    initPromise,    \* the promise init() returned
    announce,       \* the `debug` event init schedules with setImmediate
    closes,         \* one record for each close() call, in call order
    uncaught,       \* exceptions that left a callback
    faults,         \* history: the setup steps of init() that have failed
    passed,         \* history: the setup steps of init() that have succeeded
    claimError      \* history: what interface.claim() threw, or NoError

lifeVars == <<_device, handle, deviceSerial, _interface, claimed, endpoints, streams,
              serialCb, altCb, serialPromise, ifacePromise, initPromise, announce,
              closes, uncaught, faults, passed, claimError>>

vars == <<msgVars, loopVars, logVars, sendVars, locVars, lifeVars>>

----------------------------------------------------------------------------
(* Program constants *)

TRANSFER_SIZE == 4096

MiB == 1024 * 1024

OversizeLimit == 32 * MiB

NoError == [name |-> "none"]

----------------------------------------------------------------------------
(* Buffers: run-length encoded byte strings *)

Run(b, n) == [b |-> b, n |-> n]

EmptyBuffer == <<>>

\* a Buffer of n bytes, all equal to b
Fill(b, n) == IF n = 0 THEN <<>> ELSE <<Run(b, n)>>

\* buf.length
RECURSIVE BufLen(_)
BufLen(buf) == IF buf = <<>> THEN 0 ELSE Head(buf).n + BufLen(Tail(buf))

\* buf[i], 0-based; -1 stands for `undefined` (i outside the Buffer)
RECURSIVE ByteAt(_, _)
ByteAt(buf, i) ==
    IF buf = <<>> \/ i < 0 THEN -1
    ELSE IF i < Head(buf).n THEN Head(buf).b
    ELSE ByteAt(Tail(buf), i - Head(buf).n)

\* Buffer.concat([a, b])
BufConcat2(a, b) ==
    IF a = <<>> THEN b
    ELSE IF b = <<>> THEN a
    ELSE IF a[Len(a)].b = b[1].b
         THEN SubSeq(a, 1, Len(a) - 1)
              \o <<Run(b[1].b, a[Len(a)].n + b[1].n)>>
              \o Tail(b)
         ELSE a \o b

\* the Buffer holding the bytes of the sequence s
RECURSIVE FromBytes(_)
FromBytes(s) ==
    IF s = <<>> THEN <<>>
    ELSE BufConcat2(<<Run(Head(s), 1)>>, FromBytes(Tail(s)))

\* buf.slice(start): the bytes from offset start on (empty when start >= length)
RECURSIVE BufSlice(_, _)
BufSlice(buf, start) ==
    IF buf = <<>> \/ start = 0 THEN buf
    ELSE IF start < Head(buf).n
         THEN <<Run(Head(buf).b, Head(buf).n - start)>> \o Tail(buf)
         ELSE BufSlice(Tail(buf), start - Head(buf).n)

\* buf.slice(0, end): the first `end` bytes (the whole Buffer when end >= length)
RECURSIVE BufTake(_, _)
BufTake(buf, end) ==
    IF buf = <<>> \/ end = 0 THEN <<>>
    ELSE IF end < Head(buf).n THEN <<Run(Head(buf).b, end)>>
    ELSE <<Head(buf)>> \o BufTake(Tail(buf), end - Head(buf).n)

\* k copies of buf, concatenated
RECURSIVE BufRepeat(_, _)
BufRepeat(buf, k) ==
    IF k = 0 \/ buf = <<>> THEN <<>>
    ELSE IF Len(buf) = 1 THEN <<Run(buf[1].b, buf[1].n * k)>>
    ELSE BufConcat2(buf, BufRepeat(buf, k - 1))

----------------------------------------------------------------------------
(* The array `buffers`: run-length encoded sequence of chunks *)

\* buffers.push(data)
ArrPush(arr, data) ==
    IF arr # <<>> /\ arr[Len(arr)].c = data
    THEN [arr EXCEPT ![Len(arr)].k = @ + 1]
    ELSE Append(arr, [c |-> data, k |-> 1])

\* buffers.length
RECURSIVE ArrLength(_)
ArrLength(arr) == IF arr = <<>> THEN 0 ELSE Head(arr).k + ArrLength(Tail(arr))

\* Buffer.concat(buffers)
RECURSIVE BufferConcat(_)
BufferConcat(arr) ==
    IF arr = <<>> THEN <<>>
    ELSE BufConcat2(BufRepeat(Head(arr).c, Head(arr).k), BufferConcat(Tail(arr)))

----------------------------------------------------------------------------
(* Integer and text conversions of Buffer *)

\* the error of a read beyond the end of the Buffer
RangeError == [name |-> "Trying to read beyond buffer length"]

\* A uint32 is held as its two 16-bit halves, [hi, lo], value hi * 65536 + lo:
\* the values above 2^31 - 1 stay exact.
U32(hi, lo) == [hi |-> hi, lo |-> lo]

\* the uint32 of a number below 2^31 (a Buffer length)
ToU32(n) == U32(n \div 65536, n % 65536)

\* buf.readUInt32LE(offset) asserts offset + 3 < buf.length, and throws otherwise
ReadThrows(buf, offset) == ~(offset + 3 < BufLen(buf))

\* buf.readUInt32BE(offset): the big-endian read (not used by the transport)
ReadUInt32BE(buf, offset) ==
    U32(ByteAt(buf, offset) * 256 + ByteAt(buf, offset + 1),
        ByteAt(buf, offset + 2) * 256 + ByteAt(buf, offset + 3))

\* buf.readUInt32LE(offset), when it does not throw
ReadUInt32LE(buf, offset) ==
    U32(ByteAt(buf, offset + 2) + ByteAt(buf, offset + 3) * 256,
        ByteAt(buf, offset) + ByteAt(buf, offset + 1) * 256)

\* the four bytes header.writeUInt32LE(value, _) stores
WriteUInt32LE(value) ==
    FromBytes(<< value.lo % 256, value.lo \div 256,
                 value.hi % 256, value.hi \div 256 >>)

\* buf.toString('hex', 0, end): two hex digits (0..15) per byte, high digit first
RECURSIVE ToHex(_, _)
ToHex(buf, end) ==
    IF end = 0 \/ buf = <<>> THEN <<>>
    ELSE <<Head(buf).b \div 16, Head(buf).b % 16>>
         \o ToHex(BufSlice(buf, 1), end - 1)

OversizeError(hex) == [name |-> "Malformed message (oversize)", header |-> hex]

----------------------------------------------------------------------------
(* MessagesIn: the data handler of _initMessageInEndpoint *)

Message(tag, payload) == [tag |-> tag, payload |-> payload]

\* the off-by-one variant of the threshold test
OversizeAtLimit(arr) == ArrLength(arr) * TRANSFER_SIZE >= OversizeLimit

\* buffers.length * TRANSFER_SIZE > 32 * 1024 * 1024
Oversize(arr) == ArrLength(arr) * TRANSFER_SIZE > OversizeLimit

\* endpoint.on('data', function (data) {...}): one call of the handler
OnData(data) ==
    LET pushed == ArrPush(buffers, data)
        buffer == BufferConcat(pushed)
        tag    == ReadUInt32LE(buffer, 4)
        out    ==
            IF BufLen(data) < TRANSFER_SIZE
            THEN IF BufLen(buffer) > 0
                 THEN IF ReadThrows(buffer, 0) \/ ReadThrows(buffer, 4)
                      THEN [buffers |-> pushed, emitted |-> <<>>, thrown |-> RangeError]
                      ELSE [buffers |-> <<>>,
                            emitted |-> <<Message(tag, BufSlice(buffer, 8))>>,
                            thrown  |-> NoError]
                 ELSE [buffers |-> <<>>, emitted |-> <<>>, thrown |-> NoError]
            ELSE IF Oversize(pushed)
                 THEN [buffers |-> pushed, emitted |-> <<>>,
                       thrown  |-> OversizeError(ToHex(pushed[1].c, 8))]
                 ELSE [buffers |-> pushed, emitted |-> <<>>, thrown |-> NoError]
    IN  /\ thrown = NoError
        /\ buffers' = out.buffers
        /\ emitted' = out.emitted
        /\ thrown' = out.thrown
        /\ frame' = IF lastShort THEN ArrPush(<<>>, data) ELSE ArrPush(frame, data)
        /\ lastShort' = (BufLen(data) < TRANSFER_SIZE)
        /\ frameEmits' = (IF lastShort THEN 0 ELSE frameEmits) + Len(out.emitted)

\* the state after construction and _initMessageInEndpoint
InitMsg ==
    /\ buffers = <<>>
    /\ emitted = <<>>
    /\ thrown = NoError
    /\ frame = <<>>
    /\ lastShort = TRUE
    /\ frameEmits = 0

\* nothing has been posted
InitLoop == posted = <<>> /\ wire = <<>>

----------------------------------------------------------------------------
(* send, _postMessage and _controlTransfer *)

\* an argument that may be absent: `undefined`, or a Buffer
Undefined == [undef |-> TRUE]

Given(buf) == [undef |-> FALSE, buf |-> buf]

\* data = data || new Buffer(0)
OrEmpty(data) == IF data.undef THEN EmptyBuffer ELSE data.buf

\* the header with the two fields in the other order
TagFirstHeader(length, tag) ==
    BufConcat2(WriteUInt32LE(tag), WriteUInt32LE(ToU32(length)))

\* header.writeUInt32LE(data.length, 0); header.writeUInt32LE(tag, 4)
FrameHeader(length, tag) ==
    BufConcat2(WriteUInt32LE(ToU32(length)), WriteUInt32LE(tag))

\* payload = Buffer.concat([header, data]): the bytes _postMessage writes
PostMessageBytes(tag, data) ==
    BufConcat2(FrameHeader(BufLen(OrEmpty(data)), tag), OrEmpty(data))

\* The tags of Connection (../connection/Connection): three distinct uint32
TAG_KILL == U32(0, 16)

TAG_FLASH == U32(0, 80)

TAG_RUN == U32(0, 85)

\* usb.LIBUSB_REQUEST_TYPE_VENDOR | usb.LIBUSB_RECIPIENT_DEVICE | usb.LIBUSB_ENDPOINT_OUT
VENDOR_REQ_OUT == 64

\* usb.LIBUSB_REQUEST_TYPE_VENDOR | usb.LIBUSB_RECIPIENT_DEVICE | usb.LIBUSB_ENDPOINT_IN
VENDOR_REQ_IN == 192

\* the table with the entry of TAG_KILL given the method of the other two
TagMethodMapAllPost(tag) ==
    IF tag \in {TAG_KILL, TAG_FLASH, TAG_RUN}
    THEN [undef |-> FALSE, method |-> "POST_MESSAGE"]
    ELSE [undef |-> TRUE]

\* TAG_METHOD_MAP[tag]
TagMethodMap(tag) ==
    IF tag = TAG_RUN THEN [undef |-> FALSE, method |-> "POST_MESSAGE"]
    ELSE IF tag = TAG_FLASH THEN [undef |-> FALSE, method |-> "POST_MESSAGE"]
    ELSE IF tag = TAG_KILL
         THEN [undef |-> FALSE, method |-> "CONTROL_TRANSFER", direction |-> VENDOR_REQ_OUT]
    ELSE [undef |-> TRUE]

\* _this._endpoints.messagesOut.transferWithZLP(payload, callback)
BulkWrite(payload) == [kind |-> "bulk", endpoint |-> "messagesOut", bytes |-> payload]

\* _this._device.controlTransfer(direction, tag, 0, 0, data, callback)
ControlTransfer(direction, tag, data) ==
    [kind |-> "control", bmRequestType |-> direction, bRequest |-> tag,
     wValue |-> 0, wIndex |-> 0, data |-> data]

Pending == [state |-> "pending"]

Fulfilled(value) == [state |-> "fulfilled", value |-> value]

Rejected(err) == [state |-> "rejected", error |-> err]

\* reading `method` of undefined
TypeError == [name |-> "TypeError"]

InitSend ==
    /\ sendArgs = <<>>
    /\ usbCalls = <<>>
    /\ sendPromise = [state |-> "none"]

\* send(tag, data) on a Transport whose endpoints are bound
Send(tag, data) ==
    LET tagData == TagMethodMap(tag)
    IN /\ sendPromise.state # "pending"
       /\ sendArgs' = <<[tag |-> tag, data |-> data]>>
       /\ IF tagData.undef
          THEN /\ usbCalls' = <<>>
               /\ sendPromise' = [state |-> "threw", error |-> TypeError]
          ELSE IF tagData.method = "POST_MESSAGE"
          THEN /\ usbCalls' = <<BulkWrite(PostMessageBytes(tag, data))>>
               /\ sendPromise' = Pending
          ELSE /\ usbCalls' = <<ControlTransfer(tagData.direction, tag, data)>>
               /\ sendPromise' = Pending

\* the callback of the transfer: if (err) reject(err); resolve(data)
TransferDone(err, reply) ==
    /\ sendPromise.state = "pending"
    /\ sendPromise' =
          IF err # NoError THEN Rejected(err)
          ELSE IF usbCalls[1].kind = "bulk" THEN Fulfilled(Undefined)
          ELSE Fulfilled(reply)
    /\ UNCHANGED <<sendArgs, usbCalls>>

----------------------------------------------------------------------------
(* Device location: getDevices and getFirstDevice *)

TESSEL_VID == 7504    \* 0x1d50

TESSEL_PID == 24727   \* 0x6097

\* the test without the shift: any non-zero bcdDevice passes
WholeVersion(x) == x

\* x >> 8, x a uint16
ShiftRight8(x) == x \div 256

\* the callback of filter in getDevices: truthy for the devices kept
IsTesselDevice(device) ==
    /\ device.idVendor = TESSEL_VID
    /\ device.idProduct = TESSEL_PID
    /\ ShiftRight8(device.bcdDevice) # 0

\* usb.getDeviceList().filter(...)
RECURSIVE GetDevices(_)
GetDevices(list) ==
    IF list = <<>> THEN <<>>
    ELSE (IF IsTesselDevice(Head(list)) THEN <<Head(list)>> ELSE <<>>)
         \o GetDevices(Tail(list))

DeviceNotFound == [name |-> "No Tessel devices found"]

Threw(err) == [threw |-> TRUE, error |-> err]

Returned(value) == [threw |-> FALSE, value |-> value]

\* getFirstDevice(): devices[0], or the error thrown when there is none
GetFirstDevice(list) ==
    LET devices == GetDevices(list)
    IN IF Len(devices) = 0 THEN Threw(DeviceNotFound) ELSE Returned(devices[1])

NotCalled == [called |-> FALSE]

InitLoc == usbList = <<>> /\ devicesOut = NotCalled /\ firstOut = NotCalled

----------------------------------------------------------------------------
(* The lifecycle: init, _getDeviceSerial, _getDeviceInterface, close.        *)
(* A step is one turn of the event loop: a call, or one callback of the usb  *)
(* library, together with the promise reactions it triggers (es6-promise     *)
(* runs them before any later callback).  What the library reports (a throw, *)
(* an err argument) is the environment's choice.  An exception that leaves a *)
(* callback is uncaught and ends the process.                                *)

Null == [null |-> TRUE]

DeviceObject(desc) == [null |-> FALSE, descriptor |-> desc]

DeviceBusy == [name |-> "Device is in use by another process"]

LIBUSB_ERROR_BUSY == [name |-> "LIBUSB_ERROR_BUSY"]

NoPromise == [state |-> "none"]

\* Promise.race in place of Promise.all: settled by whichever promise settles first
PromiseRace(current, serial, iface) ==
    IF current.state # "pending" THEN current
    ELSE IF iface.state = "rejected" THEN Rejected(iface.error)
    ELSE IF serial.state = "rejected" THEN Rejected(serial.error)
    ELSE IF serial.state = "fulfilled" \/ iface.state = "fulfilled"
         THEN Fulfilled("this")
    ELSE Pending

\* Promise.all([serial, iface]).then(function () { ...; return _this }), which
\* init's promise follows: rejected by the first rejection, fulfilled with the
\* transport when both are fulfilled; at most one of the two has changed
PromiseAll(current, serial, iface) ==
    IF current.state # "pending" THEN current
    ELSE IF iface.state = "rejected" THEN Rejected(iface.error)
    ELSE IF serial.state = "rejected" THEN Rejected(serial.error)
    ELSE IF serial.state = "fulfilled" /\ iface.state = "fulfilled"
         THEN Fulfilled("this")
    ELSE Pending

\* setImmediate(_this.emit.bind(_this, 'debug', 'Connected to device ' + serial)):
\* scheduled by the `then` callback, when the promise of init becomes fulfilled
Announce(before, after) ==
    IF before.state = "pending" /\ after.state = "fulfilled"
    THEN [state |-> "scheduled"]
    ELSE announce

\* the state after new USBTransport()
InitLife ==
    /\ _device = Null
    /\ handle = "closed"
    /\ deviceSerial = "null"
    /\ _interface = "undefined"
    /\ claimed = FALSE
    /\ endpoints = FALSE
    /\ streams = {}
    /\ serialCb = "none"
    /\ altCb = "none"
    /\ serialPromise = NoPromise
    /\ ifacePromise = NoPromise
    /\ initPromise = NoPromise
    /\ announce = [state |-> "none"]
    /\ closes = <<>>
    /\ uncaught = {}
    /\ faults = {}
    /\ passed = {}
    /\ claimError = NoError

\* reject(new Error('Device is in use by another process')); reject(e): the
\* promise of _getDeviceInterface after interface.claim() has thrown e
ClaimRejection(e) ==
    IF e = LIBUSB_ERROR_BUSY THEN Rejected(DeviceBusy) ELSE Rejected(e)

\* init(), called on a new transport; openErr and claimErr are what
\* device.open() and interface.claim() throw (NoError: they return)
InitCall(openErr, claimErr) ==
    LET first == GetFirstDevice(usbList)
    IN
    /\ initPromise.state = "none"
    /\ closes = <<>>
    /\ IF first.threw
       THEN \* reject(e); then _this._device.open() throws on null, which the
            \* promise, already rejected, ignores
            /\ initPromise' = Rejected(first.error)
            /\ faults' = faults \cup {"resolve"}
            /\ UNCHANGED <<_device, handle, _interface, claimed, serialCb, altCb,
                           serialPromise, ifacePromise, passed, claimError>>
       ELSE IF openErr # NoError
       THEN \* device.open() throws inside the executor
            /\ _device' = DeviceObject(first.value)
            /\ initPromise' = Rejected(openErr)
            /\ faults' = faults \cup {"open"}
            /\ passed' = passed \cup {"resolve"}
            /\ UNCHANGED <<handle, _interface, claimed, serialCb, altCb,
                           serialPromise, ifacePromise, claimError>>
       ELSE /\ _device' = DeviceObject(first.value)
            /\ handle' = "open"
            /\ serialPromise' = Pending
            /\ serialCb' = "pending"
            /\ _interface' = "object"
            /\ claimed' = (claimErr = NoError)
            /\ claimError' = claimErr
            /\ ifacePromise' = IF claimErr = NoError THEN Pending
                               ELSE ClaimRejection(claimErr)
            /\ altCb' = "pending"
            /\ initPromise' = PromiseAll(Pending, serialPromise', ifacePromise')
            /\ faults' = IF claimErr = NoError THEN faults ELSE faults \cup {"claim"}
            /\ passed' = passed \cup {"resolve", "open"}
                                \cup (IF claimErr = NoError THEN {"claim"} ELSE {})
    /\ UNCHANGED <<deviceSerial, endpoints, streams, announce, closes, uncaught>>

\* the callback of device.getStringDescriptor(iSerialNumber, ...)
SerialCallback(err, serialNumber) ==
    /\ uncaught = {}
    /\ serialCb = "pending"
    /\ serialCb' = "done"
    /\ IF err # NoError
       THEN /\ serialPromise' = Rejected(err)
            /\ faults' = faults \cup {"serial"}
            /\ UNCHANGED <<deviceSerial, passed>>
       ELSE /\ deviceSerial' = serialNumber
            /\ serialPromise' = Fulfilled(serialNumber)
            /\ passed' = passed \cup {"serial"}
            /\ UNCHANGED faults
    /\ initPromise' = PromiseAll(initPromise, serialPromise', ifacePromise)
    /\ announce' = Announce(initPromise, initPromise')
    /\ UNCHANGED <<_device, handle, _interface, claimed, endpoints, streams, altCb,
                   ifacePromise, closes, uncaught, claimError>>

\* the callback of interface.setAltSetting(1, ...): if (err) reject(err), and
\* then, whatever err, the endpoints are bound and started and resolve() is called
AltSettingCallback(err) ==
    /\ uncaught = {}
    /\ altCb = "pending"
    /\ altCb' = "done"
    /\ ifacePromise' = IF ifacePromise.state # "pending" THEN ifacePromise
                       ELSE IF err # NoError THEN Rejected(err)
                       ELSE Fulfilled("undefined")
    /\ endpoints' = TRUE
    /\ streams' = {"log", "messagesIn"}
    /\ faults' = IF err # NoError THEN faults \cup {"altSetting"} ELSE faults
    /\ passed' = IF err = NoError THEN passed \cup {"altSetting"} ELSE passed
    /\ initPromise' = PromiseAll(initPromise, serialPromise, ifacePromise')
    /\ announce' = Announce(initPromise, initPromise')
    /\ UNCHANGED <<_device, handle, deviceSerial, _interface, claimed, serialCb,
                   serialPromise, closes, uncaught, claimError>>

\* the setImmediate callback: emit('debug', 'Connected to device ' + serial),
\* serial being the array of the two results, [serialNumber, undefined]
AnnounceConnected ==
    /\ uncaught = {}
    /\ announce.state = "scheduled"
    /\ announce' = [state |-> "emitted",
                    text |-> <<"Connected to device ", serialPromise.value, ",">>]
    /\ UNCHANGED <<_device, handle, deviceSerial, _interface, claimed, endpoints,
                   streams, serialCb, altCb, serialPromise, ifacePromise,
                   initPromise, closes, uncaught, faults, passed, claimError>>

\* a close() call has run to its end: its promise is resolved and no callback
\* of it is outstanding
Completed(c) == c.promise = "resolved" /\ c.release \in {"none", "done"}

\* _this._interface = null, left out
InterfaceKept == "object"

\* _this._interface = null
InterfaceReleased == "null"

\* close(): if (!_this._interface) resolve(); _this._interface.release(true, cb).
\* Without an interface the call of release throws a TypeError inside the
\* executor, which the promise, already resolved, ignores.
CloseCall ==
    /\ uncaught = {}
    /\ closes' = Append(closes,
          [ promise  |-> IF _interface # "object" THEN "resolved" ELSE "pending",
            release  |-> IF _interface # "object" THEN "none" ELSE "pending",
            devClose |-> "none",
            ready    |-> initPromise.state = "fulfilled",
            late     |-> \E i \in 1 .. Len(closes) : Completed(closes[i]) ])
    /\ UNCHANGED <<_device, handle, deviceSerial, _interface, claimed, endpoints,
                   streams, serialCb, altCb, serialPromise, ifacePromise,
                   initPromise, announce, uncaught, faults, passed, claimError>>

\* the callback of _interface.release(true, ...) of the i-th close(): err is
\* ignored; if (_this._device) _this._device.close(), which throws when
\* closeErr is an error; _this._interface = null; resolve()
ReleaseCallback(i, err, closeErr) ==
    /\ uncaught = {}
    /\ closes[i].release = "pending"
    /\ IF ~_device.null /\ closeErr # NoError
       THEN /\ closes' = [closes EXCEPT ![i].release = "threw", ![i].devClose = "threw"]
            /\ uncaught' = uncaught \cup {closeErr}
            /\ claimed' = (claimed /\ err # NoError)
            /\ UNCHANGED <<handle, _interface>>
       ELSE /\ closes' = [closes EXCEPT ![i].release = "done",
                                        ![i].promise = "resolved",
                                        ![i].devClose =
                                            IF _device.null THEN "none" ELSE "closed"]
            /\ handle' = IF _device.null THEN handle ELSE "closed"
            /\ claimed' = (claimed /\ err # NoError /\ _device.null)
            /\ _interface' = InterfaceReleased
            /\ UNCHANGED uncaught
    /\ UNCHANGED <<_device, deviceSerial, endpoints, streams, serialCb, altCb,
                   serialPromise, ifacePromise, initPromise, announce, faults,
                   passed, claimError>>

----------------------------------------------------------------------------
(* Log: the data handler of _initLogEndpoint.  A Log chunk is a sequence of  *)
(* bytes; a string is the sequence of its code points.                      *)

STX == 1

ReplacementChar == 65533

\* data[i], 0-based; -1 stands for `undefined`
ByteOf(data, i) == IF 0 <= i /\ i < Len(data) THEN data[i + 1] ELSE -1

IsContinuation(b) == 128 <= b /\ b <= 191

\* the UTF-8 decoder of Buffer#toString, for bytes below 224 (0xE0): one-byte
\* and two-byte forms; any other byte decodes to U+FFFD
RECURSIVE Utf8Decode(_)
Utf8Decode(bytes) ==
    IF bytes = <<>> THEN <<>>
    ELSE LET b == Head(bytes)
         IN IF b < 128 THEN <<b>> \o Utf8Decode(Tail(bytes))
            ELSE IF /\ 194 <= b /\ b <= 223
                    /\ Len(bytes) >= 2 /\ IsContinuation(bytes[2])
                 THEN <<(b - 192) * 64 + (bytes[2] - 128)>>
                      \o Utf8Decode(Tail(Tail(bytes)))
                 ELSE <<ReplacementChar>> \o Utf8Decode(Tail(bytes))

\* data.toString('utf8', start, end)
Utf8ToString(data, start, end) ==
    LET e == IF end > Len(data) THEN Len(data) ELSE end
    IN IF start >= e THEN <<>> ELSE Utf8Decode(SubSeq(data, start + 1, e))

\* the scan started one byte early, on the severity byte
RECURSIVE ScanFrom(_, _)
ScanFrom(data, i) ==
    IF i < Len(data) /\ data[i + 1] # STX THEN ScanFrom(data, i + 1) ELSE i

ScanStxFromLevel(data, pos) == ScanFrom(data, pos + 1)

\* the scan that steps over the STX it has found
ScanPastStx(data, pos) == ScanFrom(data, pos + 2) + 1

\* for (i = pos + 2, l = data.length; i < l; i++) { if (data[i] === 1) break; }
\* the value of i after the loop
ScanStx(data, pos) == ScanFrom(data, pos + 2)

MalformedLog(pos, got) == [name |-> "Expected STX", at |-> pos, got |-> got]

Debug(text, level) == [text |-> text, level |-> level]

InitLog ==
    /\ logData = <<>>
    /\ logPos = 0
    /\ logBusy = FALSE
    /\ debugOut = <<>>
    /\ logThrown = NoError
    /\ logSent = [known |-> FALSE]
    /\ logBefore = "idle"

\* a scan offset kept from the call before
CarriedPos == logPos

\* var pos = 0
StartPos == 0

\* endpoint.on('data', function (data) { var pos = 0, ...
LogOnData(data) ==
    /\ ~logBusy
    /\ logThrown = NoError
    /\ logData' = data
    /\ logPos' = StartPos
    /\ logBefore' = IF logBefore = "idle" THEN "first"
                    ELSE IF debugOut # <<>> /\ debugOut[Len(debugOut)].text # <<>>
                         THEN "afterText"
                    ELSE "afterOther"
    /\ logBusy' = TRUE
    /\ debugOut' = <<>>
    /\ UNCHANGED logThrown

\* one pass through the body of while (pos < data.length)
LogIterate ==
    /\ logBusy
    /\ logPos < Len(logData)
    /\ IF ByteOf(logData, logPos) # STX
       THEN /\ logThrown' = MalformedLog(logPos, ByteOf(logData, logPos))
            /\ logBusy' = FALSE
            /\ UNCHANGED <<logPos, debugOut>>
       ELSE LET logLevel == ByteOf(logData, logPos + 1)
                i == ScanStx(logData, logPos)
                message == Utf8ToString(logData, logPos + 2, i)
            IN /\ debugOut' = Append(debugOut, Debug(message, logLevel))
               /\ logPos' = i
               /\ UNCHANGED <<logThrown, logBusy>>
    /\ UNCHANGED <<logData, logSent, logBefore>>

\* the loop test fails and the handler returns
LogReturn ==
    /\ logBusy
    /\ ~(logPos < Len(logData))
    /\ logBusy' = FALSE
    /\ UNCHANGED <<logData, logPos, debugOut, logThrown, logSent, logBefore>>

----------------------------------------------------------------------------
(* Inputs of the Log stream *)

\* longest chunk of arbitrary bytes
MaxRawLen == 4

\* most records of a chunk built from records
MaxRecs == 2

\* STX, a letter, and the two bytes of U+00E9
LogAlphabet == {1, 65, 195, 169}

LogLevels == {1, 2}

\* the texts of records: empty, one-byte and two-byte characters
LogTexts == {<<>>, <<65>>, <<233>>, <<233, 65>>}

SeqsUpTo(S, n) == UNION { [1 .. m -> S] : m \in 0 .. n }

\* the UTF-8 encoding of a string of characters below U+0800
RECURSIVE Utf8Encode(_)
Utf8Encode(text) ==
    IF text = <<>> THEN <<>>
    ELSE (IF Head(text) < 128 THEN <<Head(text)>>
          ELSE <<192 + (Head(text) \div 64), 128 + (Head(text) % 64)>>)
         \o Utf8Encode(Tail(text))

\* the wire form of a sequence of records: STX, severity, text, for each
RECURSIVE LogWire(_)
LogWire(recs) ==
    IF recs = <<>> THEN <<>>
    ELSE <<STX, Head(recs).level>> \o Utf8Encode(Head(recs).text)
         \o LogWire(Tail(recs))

LogRecords == [level : LogLevels, text : LogTexts]

\* the Log stream delivers a chunk of arbitrary bytes
LogDataRaw ==
    /\ \E data \in SeqsUpTo(LogAlphabet, MaxRawLen) : LogOnData(data)
    /\ logSent' = [known |-> FALSE]
    /\ UNCHANGED <<msgVars, loopVars, sendVars, locVars, lifeVars>>

\* the Log stream delivers a chunk that holds a sequence of records
LogDataRecords ==
    /\ \E recs \in SeqsUpTo(LogRecords, MaxRecs) :
          /\ LogOnData(LogWire(recs))
          /\ logSent' = [known |-> TRUE, recs |-> recs]
    /\ UNCHANGED <<msgVars, loopVars, sendVars, locVars, lifeVars>>

InitLogSpec == InitMsg /\ InitLoop /\ InitLog /\ InitSend /\ InitLoc /\ InitLife

NextLog ==
    \/ LogDataRaw
    \/ LogDataRecords
    \/ LogIterate /\ UNCHANGED <<msgVars, loopVars, sendVars, locVars, lifeVars>>
    \/ LogReturn /\ UNCHANGED <<msgVars, loopVars, sendVars, locVars, lifeVars>>

SpecLog == InitLogSpec /\ [][NextLog]_vars

\* the events the records of a chunk stand for
DebugOfRecords(recs) ==
    [ r \in 1 .. Len(recs) |-> Debug(recs[r].text, recs[r].level) ]

\* C4: for a chunk STX level_1 text_1 STX level_2 text_2 ... (texts in UTF-8,
\* free of STX) the handler emits one debug(text_i, level_i) per record, in the
\* order of the chunk: the events so far are the first records, and when the
\* handler has returned they are all of them.
C4_LogDecoding ==
    logSent.known =>
        /\ logThrown = NoError
        /\ Len(debugOut) <= Len(logSent.recs)
        /\ debugOut = SubSeq(DebugOfRecords(logSent.recs), 1, Len(debugOut))
        /\ ~logBusy => debugOut = DebugOfRecords(logSent.recs)

\* a chunk of two records, one with a two-byte character and one with the
\* severity 1, has been decoded
C4_Witness ==
    /\ logSent.known
    /\ ~logBusy
    /\ Len(debugOut) = 2
    /\ debugOut[1] = Debug(<<233, 65>>, 1)
    /\ debugOut[2].text = <<65>>

----------------------------------------------------------------------------
(* Inputs of the MessagesIn stream *)

\* chunks of an accumulation that may be chosen freely; the later ones are
\* zero-filled full chunks or a short chunk
MaxVaried == 1

\* chunks explored beyond the first one that exceeds the threshold
TailSlack == 2

\* an accumulation of more than MaxVaried full chunks is ended by a short chunk
\* only within NearLimit chunks of the threshold
NearLimit == 2

MaxFrameChunks == OversizeLimit \div TRANSFER_SIZE + 1 + TailSlack

\* the first eight bytes of the chunks that start with a header
HeadPatterns == { <<5, 0, 0, 0, 1, 2, 3, 4>>, <<0, 16, 0, 0, 255, 255, 255, 255>> }

FillBytes == {0, 9}

ZeroChunk == Fill(0, TRANSFER_SIZE)

FullChunks ==
    { BufConcat2(FromBytes(h), Fill(9, TRANSFER_SIZE - 8)) : h \in HeadPatterns }
    \cup { Fill(b, TRANSFER_SIZE) : b \in FillBytes }

ShortChunks ==
    { EmptyBuffer }
    \cup { FromBytes(h) : h \in HeadPatterns }
    \cup { BufConcat2(FromBytes(h), Fill(9, 5)) : h \in HeadPatterns }
    \cup { Fill(9, TRANSFER_SIZE - 1), Fill(0, 1) }
    \cup { FromBytes(SubSeq(<<5, 0, 0, 0, 1, 2, 3, 4>>, 1, n)) : n \in {3, 7} }

\* the position the next chunk takes in its accumulation
NextPosition == IF lastShort THEN 1 ELSE ArrLength(frame) + 1

\* the MessagesIn stream delivers a full chunk
DataFull ==
    \E data \in FullChunks :
        /\ NextPosition <= MaxFrameChunks
        /\ NextPosition > MaxVaried => data = ZeroChunk
        /\ OnData(data)

\* the MessagesIn stream delivers a short chunk
DataShort ==
    \E data \in ShortChunks :
        /\ \/ NextPosition - 1 <= MaxVaried
           \/ NextPosition - 1 >= OversizeLimit \div TRANSFER_SIZE - NearLimit
        /\ OnData(data)

InitIn == InitMsg /\ InitLoop /\ InitLog /\ InitSend /\ InitLoc /\ InitLife

NextIn == (DataFull \/ DataShort) /\ UNCHANGED <<loopVars, logVars, sendVars, locVars, lifeVars>>

SpecIn == InitIn /\ [][NextIn]_vars

----------------------------------------------------------------------------
(* The chunk sequence `frame`, read as the claims read it *)

\* total number of bytes delivered
RECURSIVE FrameLen(_)
FrameLen(arr) ==
    IF arr = <<>> THEN 0 ELSE Head(arr).k * BufLen(Head(arr).c) + FrameLen(Tail(arr))

\* the q-th chunk delivered, 0-based
RECURSIVE ArrAt(_, _)
ArrAt(arr, q) == IF q < Head(arr).k THEN Head(arr).c ELSE ArrAt(Tail(arr), q - Head(arr).k)

\* number of chunks of exactly TRANSFER_SIZE bytes
RECURSIVE FullCount(_)
FullCount(arr) ==
    IF arr = <<>> THEN 0
    ELSE (IF BufLen(Head(arr).c) = TRANSFER_SIZE THEN Head(arr).k ELSE 0)
         + FullCount(Tail(arr))

\* byte i of the concatenation; every chunk but the last has TRANSFER_SIZE bytes
FrameByte(arr, i) == ByteAt(ArrAt(arr, i \div TRANSFER_SIZE), i % TRANSFER_SIZE)

\* offsets at which the runs of a Buffer start
RECURSIVE RunStarts(_, _)
RunStarts(buf, base) ==
    IF buf = <<>> THEN {}
    ELSE {base} \cup RunStarts(Tail(buf), base + Head(buf).n)

\* offsets at which the byte of the concatenation may change
RECURSIVE FrameStarts(_, _)
FrameStarts(arr, base) ==
    IF arr = <<>> THEN {}
    ELSE LET c == Head(arr).c
             k == Head(arr).k
         IN (IF Len(c) <= 1 THEN {base}
             ELSE UNION { RunStarts(c, base + m * BufLen(c)) : m \in 0 .. k - 1 })
            \cup FrameStarts(Tail(arr), base + k * BufLen(c))

\* payload is exactly the bytes of the concatenation from offset 8 on: the two
\* are piecewise constant, so they agree when they agree where either changes
PayloadOfFrame(payload, arr) ==
    /\ BufLen(payload) = FrameLen(arr) - 8
    /\ \A i \in RunStarts(payload, 0) \cup { s - 8 : s \in FrameStarts(arr, 0) } :
          (0 <= i /\ i < BufLen(payload)) => ByteAt(payload, i) = FrameByte(arr, i + 8)

\* the tag as the wire format defines it: bytes 4-7, least significant first
TagOfFrame(arr) ==
    U32(FrameByte(arr, 6) + 256 * FrameByte(arr, 7),
        FrameByte(arr, 4) + 256 * FrameByte(arr, 5))

\* the chunks of `frame` are an 8-byte header and a payload, ended by a short chunk
FrameComplete == frame # <<>> /\ lastShort /\ FrameLen(frame) >= 8

\* only full-size chunks have arrived in the current accumulation
OnlyFullChunks == frame # <<>> /\ ~lastShort

OneMessageOfFrame ==
    /\ thrown = NoError
    /\ frameEmits = 1
    /\ Len(emitted) = 1
    /\ emitted[1].tag = TagOfFrame(frame)
    /\ PayloadOfFrame(emitted[1].payload, frame)

\* C1 as stated: every sequence of full chunks ended by a short chunk that holds
\* a header and a payload yields exactly one `message` event, emitted by the
\* call for the short chunk, with the tag of bytes 4-7 and the bytes after the
\* header; while only full chunks have arrived the handler emits nothing (and
\* goes on to take the next chunk).
C1_AnyFrameOneMessage ==
    /\ FrameComplete => OneMessageOfFrame
    /\ OnlyFullChunks => (frameEmits = 0 /\ emitted = <<>> /\ thrown = NoError)

\* C1, amended: the same for the sequences with at most 8192 full-size chunks,
\* those whose accumulation stays within 32 MiB until the short chunk arrives.
C1_FrameOneMessage ==
    /\ (FrameComplete /\ FullCount(frame) * TRANSFER_SIZE <= OversizeLimit)
          => OneMessageOfFrame
    /\ (OnlyFullChunks /\ FullCount(frame) * TRANSFER_SIZE <= OversizeLimit)
          => (frameEmits = 0 /\ emitted = <<>> /\ thrown = NoError)
    /\ OnlyFullChunks => frameEmits = 0

\* a frame of the largest accepted size has been reassembled
C1_Witness ==
    /\ FrameComplete
    /\ FullCount(frame) * TRANSFER_SIZE = OversizeLimit
    /\ Len(emitted) = 1
    /\ BufLen(emitted[1].payload) > OversizeLimit

\* the first eight bytes delivered, as sixteen hex digits
HeaderHexOfFrame ==
    [ d \in 1 .. 16 |->
        IF d % 2 = 1 THEN FrameByte(frame, (d - 1) \div 2) \div 16
                     ELSE FrameByte(frame, (d - 1) \div 2) % 16 ]

\* C3: once the full chunks accumulated exceed 32 MiB the handler has thrown the
\* oversize error, which carries the first 8 bytes of the first chunk as hex, and
\* no `message` event was emitted for the accumulation; up to 32 MiB of full
\* chunks cause neither an error nor an event.
C3_Oversize ==
    /\ (OnlyFullChunks /\ FrameLen(frame) > OversizeLimit)
          => /\ thrown = OversizeError(HeaderHexOfFrame)
             /\ emitted = <<>>
             /\ frameEmits = 0
    /\ (OnlyFullChunks /\ FrameLen(frame) <= OversizeLimit)
          => /\ thrown = NoError
             /\ emitted = <<>>
             /\ frameEmits = 0

\* the oversize error has been thrown for an accumulation that starts with a header
C3_Witness ==
    /\ OnlyFullChunks
    /\ FrameLen(frame) = OversizeLimit + TRANSFER_SIZE
    /\ thrown = OversizeError(<<0, 5, 0, 0, 0, 0, 0, 0, 0, 1, 0, 2, 0, 3, 0, 4>>)

----------------------------------------------------------------------------
(* MessagesOut: _postMessage, and the frame it writes looped back *)

\* the chunk the MessagesIn stream reads next of the bytes on the wire: at most
\* TRANSFER_SIZE bytes; a transfer that ends on a full chunk is ended by a
\* zero-length chunk
NextChunk(bytes) == BufTake(bytes, TRANSFER_SIZE)

RtTags == { U32(0, 0), U32(1027, 513), U32(65535, 65535) }

FullFrames == OversizeLimit \div TRANSFER_SIZE

RtLengths ==
    { 0, 1, 3, TRANSFER_SIZE - 9, TRANSFER_SIZE - 8, TRANSFER_SIZE - 7,
      2 * TRANSFER_SIZE - 8,
      FullFrames * TRANSFER_SIZE - 8,
      (FullFrames + 1) * TRANSFER_SIZE - 9,
      (FullFrames + 1) * TRANSFER_SIZE - 8 }

RtPayloads ==
    { Undefined, Given(FromBytes(<<1, 2, 1>>)) }
    \cup { Given(Fill(7, n)) : n \in RtLengths }

\* _postMessage(tag, data) is called and its bytes are put on the wire
RtPost ==
    /\ posted = <<>>
    /\ \E tag \in RtTags, data \in RtPayloads :
          /\ posted' = <<[tag |-> tag, data |-> data]>>
          /\ wire' = <<PostMessageBytes(tag, data)>>
    /\ UNCHANGED <<msgVars, logVars, sendVars, locVars, lifeVars>>

\* the device returns the next chunk of the transfer on MessagesIn
RtDeliver ==
    /\ wire # <<>>
    /\ LET chunk == NextChunk(wire[1])
       IN /\ OnData(chunk)
          /\ wire' = IF BufLen(chunk) < TRANSFER_SIZE THEN <<>>
                     ELSE <<BufSlice(wire[1], TRANSFER_SIZE)>>
    /\ UNCHANGED <<posted, logVars, sendVars, locVars, lifeVars>>

InitRt == InitMsg /\ InitLoop /\ InitLog /\ InitSend /\ InitLoc /\ InitLife

NextRt == RtPost \/ RtDeliver

SpecRt == InitRt /\ [][NextRt]_vars

\* the frame has been posted and every chunk of it was handed to the handler,
\* or the handler has thrown before the last one
RtOver == posted # <<>> /\ (wire = <<>> \/ thrown # NoError)

RtReturned ==
    /\ thrown = NoError
    /\ frameEmits = 1
    /\ emitted = <<Message(posted[1].tag, OrEmpty(posted[1].data))>>

\* C2 as stated: whatever the tag and the payload, the frame _postMessage builds,
\* cut into full chunks and a final shorter one and fed to the MessagesIn
\* handler, yields exactly one `message` event with the tag and payload sent.
C2_AnyRoundTrip == RtOver => RtReturned

\* C2, amended: the same for the payloads whose frame (header included) holds
\* fewer than 8193 full chunks, so that the accumulation stays within 32 MiB.
C2_RoundTrip ==
    /\ (RtOver /\ BufLen(OrEmpty(posted[1].data)) + 8
                    < (FullFrames + 1) * TRANSFER_SIZE) => RtReturned
    /\ (posted # <<>> /\ wire # <<>>) => frameEmits = 0

\* a frame whose size is a multiple of the chunk size went round
C2_Witness ==
    /\ RtOver
    /\ posted[1].tag = U32(65535, 65535)
    /\ BufLen(OrEmpty(posted[1].data)) = FullFrames * TRANSFER_SIZE - 8
    /\ Len(emitted) = 1

----------------------------------------------------------------------------
(* Inputs of send *)

SendTags == { TAG_KILL, TAG_FLASH, TAG_RUN, U32(0, 0) }

SendPayloads ==
    { Undefined, Given(EmptyBuffer), Given(FromBytes(<<1, 2, 1>>)),
      Given(Fill(0, 1)), Given(Fill(7, 300)),
      Given(Fill(7, TRANSFER_SIZE - 8)), Given(Fill(255, 70000)),
      Given(FromBytes(<<0, 255>>)) }

UsbErrors == { [name |-> "LIBUSB_TRANSFER_TIMED_OUT"], [name |-> "LIBUSB_TRANSFER_STALL"] }

SendCall ==
    /\ \E tag \in SendTags, data \in SendPayloads : Send(tag, data)
    /\ UNCHANGED <<msgVars, loopVars, logVars, locVars, lifeVars>>

SendCompletes ==
    /\ \E reply \in { Undefined, Given(FromBytes(<<6>>)) } : TransferDone(NoError, reply)
    /\ UNCHANGED <<msgVars, loopVars, logVars, locVars, lifeVars>>

SendFails ==
    /\ \E err \in UsbErrors : TransferDone(err, Undefined)
    /\ UNCHANGED <<msgVars, loopVars, logVars, locVars, lifeVars>>

InitSendSpec == InitMsg /\ InitLoop /\ InitLog /\ InitSend /\ InitLoc /\ InitLife

NextSend == SendCall \/ SendCompletes \/ SendFails

SpecSend == InitSendSpec /\ [][NextSend]_vars

\* the bytes are [length as LE32][tag as LE32][payload], byte by byte
IsFrameOf(bytes, tag, payload) ==
    /\ BufLen(bytes) = 8 + BufLen(payload)
    /\ \A i \in 0 .. 3 :
          ByteAt(bytes, i) =
             (BufLen(payload) \div (CASE i = 0 -> 1 [] i = 1 -> 256
                                       [] i = 2 -> 65536 [] i = 3 -> 16777216)) % 256
    /\ ByteAt(bytes, 4) = tag.lo % 256
    /\ ByteAt(bytes, 5) = tag.lo \div 256
    /\ ByteAt(bytes, 6) = tag.hi % 256
    /\ ByteAt(bytes, 7) = tag.hi \div 256
    /\ BufSlice(bytes, 8) = payload

\* C5: a send with a tag of the dispatch table issues exactly one transfer, of
\* the mapped kind: for TAG_RUN and TAG_FLASH one write on MessagesOut of
\* [len(payload) LE32][tag LE32][payload], an absent payload framed as length 0;
\* for TAG_KILL one host-to-device vendor control transfer with the tag as
\* request and the payload as data.
C5_SendDispatch ==
    (sendArgs # <<>> /\ sendArgs[1].tag \in {TAG_KILL, TAG_FLASH, TAG_RUN}) =>
        /\ Len(usbCalls) = 1
        /\ sendArgs[1].tag \in {TAG_RUN, TAG_FLASH} =>
              /\ usbCalls[1].kind = "bulk"
              /\ usbCalls[1].endpoint = "messagesOut"
              /\ IsFrameOf(usbCalls[1].bytes, sendArgs[1].tag,
                           IF sendArgs[1].data = Undefined THEN EmptyBuffer
                           ELSE sendArgs[1].data.buf)
        /\ sendArgs[1].tag = TAG_KILL =>
              /\ usbCalls[1].kind = "control"
              /\ usbCalls[1].bmRequestType = 64
              /\ usbCalls[1].bRequest = TAG_KILL
              /\ usbCalls[1].data = sendArgs[1].data

\* TAG_RUN has been sent with a payload of more than 65535 bytes
C5_Witness ==
    /\ sendArgs # <<>>
    /\ sendArgs[1].tag = TAG_RUN
    /\ sendArgs[1].data = Given(Fill(255, 70000))
    /\ Len(usbCalls) = 1
    /\ sendPromise.state = "fulfilled"

----------------------------------------------------------------------------
(* Inputs of the device location *)

\* most devices attached
MaxDevices == 3

Descriptor(vid, pid, bcd) == [idVendor |-> vid, idProduct |-> pid, bcdDevice |-> bcd]

\* a Tessel (firmware 1.0), a Tessel of version 0xFF01, a Tessel in bootloader
\* mode (0x00FF), a Tessel with bcdDevice 0, and devices of other ids
UsbDescriptors ==
    { Descriptor(TESSEL_VID, TESSEL_PID, 256),
      Descriptor(TESSEL_VID, TESSEL_PID, 65281),
      Descriptor(TESSEL_VID, TESSEL_PID, 255),
      Descriptor(TESSEL_VID, TESSEL_PID, 0),
      Descriptor(TESSEL_VID, 24728, 256),
      Descriptor(1133, TESSEL_PID, 256) }

CallGetDevices ==
    /\ devicesOut' = [called |-> TRUE, devices |-> GetDevices(usbList)]
    /\ UNCHANGED <<usbList, firstOut>>
    /\ UNCHANGED <<msgVars, loopVars, logVars, sendVars, lifeVars>>

CallGetFirstDevice ==
    /\ firstOut' = [called |-> TRUE, result |-> GetFirstDevice(usbList)]
    /\ UNCHANGED <<usbList, devicesOut>>
    /\ UNCHANGED <<msgVars, loopVars, logVars, sendVars, lifeVars>>

InitLocSpec ==
    /\ InitMsg /\ InitLoop /\ InitLog /\ InitSend /\ InitLife
    /\ usbList \in SeqsUpTo(UsbDescriptors, MaxDevices)
    /\ devicesOut = NotCalled
    /\ firstOut = NotCalled

NextLoc == CallGetDevices \/ CallGetFirstDevice

SpecLoc == InitLocSpec /\ [][NextLoc]_vars

\* vendor 0x1D50, product 0x6097, and a 16-bit firmware version whose high byte
\* is not zero, which is one that is not among 0x0000 .. 0x00FF
IsCandidate(d) ==
    /\ d.idVendor = 7504
    /\ d.idProduct = 24727
    /\ d.bcdDevice \notin 0 .. 255

\* positions of the candidates in the enumeration
CandidateAt == { i \in 1 .. Len(usbList) : IsCandidate(usbList[i]) }

\* the position of the k-th candidate
KthCandidate(k) ==
    CHOOSE i \in CandidateAt : Cardinality({ j \in CandidateAt : j <= i }) = k

----------------------------------------------------------------------------
(* The lifecycle specification: one transport, on which init() is called at  *)
(* most once and before any close(), and close() any number of times, also   *)
(* while callbacks of init() or of an earlier close() are outstanding.       *)

MaxCloses == 3

\* nothing attached, a Tessel in bootloader mode only, a Tessel, a Tessel
\* enumerated after a device of another vendor
LifeLists ==
    { <<>>,
      <<Descriptor(TESSEL_VID, TESSEL_PID, 255)>>,
      <<Descriptor(TESSEL_VID, TESSEL_PID, 256)>>,
      <<Descriptor(1133, 49271, 256), Descriptor(TESSEL_VID, TESSEL_PID, 65281)>> }

Serials == {"TM-00-04-f000da30"}

OpenErrors == {[name |-> "LIBUSB_ERROR_ACCESS"]}

ClaimErrors == {LIBUSB_ERROR_BUSY, [name |-> "LIBUSB_ERROR_NO_DEVICE"]}

SerialErrors == {[name |-> "LIBUSB_TRANSFER_STALL"]}

AltSettingErrors == {[name |-> "LIBUSB_ERROR_NOT_FOUND"]}

ReleaseErrors == {[name |-> "LIBUSB_ERROR_NOT_FOUND"]}

DeviceCloseErrors == {[name |-> "Can't close device with a pending request"]}

otherVars == <<msgVars, loopVars, logVars, sendVars, locVars>>

LifeInit ==
    \E openErr \in OpenErrors \cup {NoError}, claimErr \in ClaimErrors \cup {NoError} :
        InitCall(openErr, claimErr) /\ UNCHANGED otherVars

LifeSerial ==
    \E err \in SerialErrors \cup {NoError}, serialNumber \in Serials :
        SerialCallback(err, serialNumber) /\ UNCHANGED otherVars

\* the alternate setting of an interface that was not claimed cannot be selected
LifeAltSetting ==
    \E err \in AltSettingErrors \cup (IF claimError = NoError THEN {NoError} ELSE {}) :
        AltSettingCallback(err) /\ UNCHANGED otherVars

LifeAnnounce == AnnounceConnected /\ UNCHANGED otherVars

LifeClose == Len(closes) < MaxCloses /\ CloseCall /\ UNCHANGED otherVars

LifeRelease ==
    \E i \in 1 .. Len(closes), err \in ReleaseErrors \cup {NoError},
       closeErr \in DeviceCloseErrors \cup {NoError} :
        ReleaseCallback(i, err, closeErr) /\ UNCHANGED otherVars

InitLifeSpec ==
    /\ InitMsg /\ InitLoop /\ InitLog /\ InitSend /\ InitLife
    /\ usbList \in LifeLists
    /\ devicesOut = NotCalled
    /\ firstOut = NotCalled

NextLife ==
    \/ LifeInit
    \/ LifeSerial
    \/ LifeAltSetting
    \/ LifeAnnounce
    \/ LifeClose
    \/ LifeRelease

SpecLife == InitLifeSpec /\ [][NextLife]_vars

SetupSteps == {"resolve", "open", "serial", "claim", "altSetting"}

\* C6: once device resolution, device open, the serial-number read, the
\* interface claim or the alternate-setting selection has failed, the promise
\* of init() is rejected, in that state and in every later one, in whichever
\* order the two callbacks run; it is fulfilled only when all five steps have
\* succeeded.
C6_InitAllOrNothing ==
    /\ faults # {} => initPromise.state = "rejected"
    /\ initPromise.state = "fulfilled" => passed = SetupSteps /\ faults = {}

\* C6: the serial-number read failed after the alternate setting had been
\* selected, and init() is rejected with the error of the read
C6_Witness ==
    /\ faults = {"serial"}
    /\ ifacePromise.state = "fulfilled"
    /\ initPromise.state = "rejected"
    /\ initPromise.error \in SerialErrors

\* the i-th close() call was made after an earlier close() had run to its end
LateClose(i) == closes[i].late

\* the fields of the transport and the state of its device
transportState == <<_device, handle, deviceSerial, _interface, claimed, endpoints, streams>>

\* C8: a close() call made after one close() has completed is resolved, issues
\* no release of the interface and no close of the device, and the call leaves
\* the state of the transport as it was.
C8_CloseIdempotent ==
    /\ [](\A i \in 1 .. Len(closes) :
            LateClose(i) => /\ closes[i].promise = "resolved"
                            /\ closes[i].release = "none"
                            /\ closes[i].devClose = "none")
    /\ [][(Len(closes') = Len(closes) + 1 /\ closes'[Len(closes')].late)
            => transportState' = transportState]_vars

\* C8: a first close() released the interface and closed the device, and a
\* close() was called after it
C8_Witness ==
    /\ Len(closes) >= 2
    /\ closes[1].release = "done"
    /\ closes[1].devClose = "closed"
    /\ LateClose(Len(closes))
    /\ closes[Len(closes)].promise = "resolved"

\* C9: no close() call is rejected, no exception leaves close() or its
\* callback, and a call without a release outstanding is resolved, also when
\* the release reported an error or closing the device failed.
C9_CloseNeverFails ==
    /\ uncaught = {}
    /\ \A i \in 1 .. Len(closes) :
          /\ closes[i].promise # "rejected"
          /\ closes[i].release # "pending" => closes[i].promise = "resolved"

\* C7: when interface.claim() throws LIBUSB_ERROR_BUSY, init() is rejected with
\* the device-busy error, in that state and in every later one; when it throws
\* anything else, with what it threw; and after the busy failure a close()
\* whose release has called back is resolved and has raised nothing.
C7_DeviceBusy ==
    /\ claimError = LIBUSB_ERROR_BUSY => initPromise = Rejected(DeviceBusy)
    /\ claimError \notin {NoError, LIBUSB_ERROR_BUSY} => initPromise = Rejected(claimError)
    /\ claimError = LIBUSB_ERROR_BUSY =>
          /\ uncaught = {}
          /\ \A i \in 1 .. Len(closes) :
                closes[i].release # "pending" => closes[i].promise = "resolved"

\* C11: in every state in which the promise of init() is rejected, the
\* transport holds no claim of the interface, has no endpoint role bound and
\* no endpoint streaming.
C11_NoPartialState ==
    initPromise.state = "rejected" =>
        /\ ~claimed
        /\ ~endpoints
        /\ streams = {}

\* C12: the endpoint roles are bound and the Log and MessagesIn streams are
\* started only when the serial-number read, the claim of interface 0 and the
\* selection of alternate setting 1 have all succeeded: never while the read
\* is pending or has failed, nor after the claim or the selection has failed.
C12_EndpointStartOrder ==
    (endpoints \/ streams # {}) =>
        /\ {"serial", "claim", "altSetting"} \subseteq passed
        /\ faults = {}

\* the i-th close() call was made while an earlier one had not completed, or
\* is the first one
FirstOrOverlapping(i) == ~LateClose(i)

\* C13: on a transport whose claim of the interface never succeeded every
\* close() is resolved at once, with no release of the interface and no close
\* of the device; on a transport that holds the claim, close() releases the
\* interface, then closes the device, and is resolved only after both.
C13_CloseWithoutClaim ==
    \A i \in 1 .. Len(closes) :
        /\ "claim" \notin passed =>
              /\ closes[i].promise = "resolved"
              /\ closes[i].release = "none"
              /\ closes[i].devClose = "none"
        /\ ("claim" \in passed /\ FirstOrOverlapping(i)) =>
              /\ closes[i].release # "none"
              /\ closes[i].promise = "resolved" =>
                    (closes[i].release = "done" /\ closes[i].devClose = "closed")

\* C17: once close() has been called, no step binds the endpoint roles, starts
\* an endpoint stream or fulfils the promise of init(); the transport becomes
\* Ready, if at all, before it starts closing.
C17_LifecycleOrder ==
    [][closes # <<>> =>
          /\ endpoints' = endpoints
          /\ streams' = streams
          /\ (initPromise'.state = "fulfilled" => initPromise.state = "fulfilled")]_vars

\* the close() calls made on the transport when init() had been fulfilled
ReadyCloses == { i \in 1 .. Len(closes) : closes[i].ready }

\* C18: of the close() calls made on a Ready transport at most one issues a
\* release of the interface and at most one closes the device, and each of
\* them is resolved once no release callback is outstanding.
C18_OverlappingCloses ==
    /\ Cardinality({ i \in ReadyCloses : closes[i].release # "none" }) <= 1
    /\ Cardinality({ i \in ReadyCloses : closes[i].devClose # "none" }) <= 1
    /\ (\A i \in 1 .. Len(closes) : closes[i].release # "pending")
          => \A i \in ReadyCloses : closes[i].promise = "resolved"

\* the payload length as the wire format defines it: bytes 0-3 of the chunks
\* delivered, least significant first
LengthOfFrame(arr) ==
    U32(FrameByte(arr, 2) + 256 * FrameByte(arr, 3),
        FrameByte(arr, 0) + 256 * FrameByte(arr, 1))

\* C14: the payload of every `message` event has as many bytes as bytes 0-3 of
\* the header of its frame declare.
C14_DeclaredLength ==
    \A m \in 1 .. Len(emitted) :
        ToU32(BufLen(emitted[m].payload)) = LengthOfFrame(frame)

\* C15: when the handler has taken a short chunk the accumulation is empty,
\* whether it held nothing, 1 to 7 bytes or a frame; an empty accumulation
\* gives no event and no error; and the one event of a frame is emitted by the
\* call for its short chunk, with the bytes of the chunks that arrived since
\* the previous short chunk.
C15_BufferReset ==
    /\ lastShort => buffers = <<>>
    /\ (lastShort /\ frame # <<>> /\ FrameLen(frame) = 0)
          => (emitted = <<>> /\ frameEmits = 0 /\ thrown = NoError)
    /\ FrameComplete => OneMessageOfFrame

\* the handler has been called with a chunk of at least one byte
LogChunkTaken == logData # <<>>

\* C19: for a non-empty Log chunk the handler throws the malformed-log error if
\* and only if the first byte is not STX, and then at offset 0, before any
\* `debug` event of the chunk; with STX first it throws at no point of the
\* chunk, whatever follows.
C19_MalformedIffNotStx ==
    LogChunkTaken =>
        /\ logData[1] = STX => logThrown = NoError
        /\ (logData[1] # STX /\ ~logBusy) =>
              /\ logThrown = MalformedLog(0, logData[1])
              /\ debugOut = <<>>
        /\ logThrown # NoError => (logData[1] # STX /\ debugOut = <<>>)

\* C19: the chunk STX 1 'A' STX (a severity equal to STX, and an STX as the
\* last byte) has been decoded to its two events without an error
C19_Witness ==
    /\ ~logBusy
    /\ logData = <<STX, 1, 65, STX>>
    /\ logThrown = NoError
    /\ Len(debugOut) = 2
    /\ debugOut[1] = Debug(<<65>>, 1)
    /\ debugOut[2].text = <<>>

\* C20: a pass of the decode loop that does not throw moves the scan offset
\* forward by at least 2, and the offset never passes the end of the chunk by
\* more than 1, so the passes of a chunk of n bytes, and its `debug` events,
\* are at most ceil(n/2); the handler is never stuck inside the loop: while it
\* runs, a further pass or the return is possible.
C20_LogTerminates ==
    /\ [][(logBusy /\ logBusy' /\ logData' = logData /\ debugOut' # debugOut)
            => (logPos' >= logPos + 2 /\ Len(debugOut') = Len(debugOut) + 1)]_vars
    /\ [](logPos <= Len(logData) + 1)
    /\ [](2 * Len(debugOut) <= Len(logData) + 1)
    /\ [](logBusy => ENABLED (NextLog /\ logBusy))

\* C20: a chunk of four bytes has given two events, the most it can, and the
\* handler has returned
C20_Witness ==
    /\ ~logBusy
    /\ logThrown = NoError
    /\ Len(logData) = 4
    /\ Len(debugOut) = 2
    /\ logPos >= 4

\* the events of a chunk parsed on its own, from the offset pos on
RECURSIVE ChunkEvents(_, _)
ChunkEvents(data, pos) ==
    IF pos >= Len(data) \/ ByteOf(data, pos) # STX THEN <<>>
    ELSE LET i == ScanStx(data, pos)
         IN <<Debug(Utf8ToString(data, pos + 2, i), ByteOf(data, pos + 1))>>
            \o ChunkEvents(data, i)

\* C16: whatever chunks came before, the events of a handler call are those of
\* its chunk parsed on its own from offset 0 (so the events of a sequence of
\* chunks are the per-chunk events, one after the other); and a chunk that
\* follows one ended inside the text of a record and does not start with STX
\* is not joined to it: the handler throws the malformed-log error at offset 0.
C16_PerChunkParsing ==
    /\ ~logBusy => debugOut = ChunkEvents(logData, 0)
    /\ logBusy =>
          /\ Len(debugOut) <= Len(ChunkEvents(logData, 0))
          /\ debugOut = SubSeq(ChunkEvents(logData, 0), 1, Len(debugOut))
    /\ (logBefore = "afterText" /\ ~logBusy /\ logData # <<>> /\ logData[1] # STX)
          => (logThrown = MalformedLog(0, logData[1]) /\ debugOut = <<>>)

\* C16: after a chunk that ended inside the text of a record, the chunk 'A' 'A'
\* (the rest of that text) has been taken and rejected at offset 0
C16_Witness ==
    /\ logBefore = "afterText"
    /\ ~logBusy
    /\ logData = <<65, 65>>
    /\ logThrown = MalformedLog(0, 65)

====
